---- MODULE Spec2Model ----
(***************************************************************************)
(* The agent workflow of backend/app/agent.py: one run of                  *)
(* handle_agent_workflow (create_task_list, execute_tasks,                 *)
(* review_and_repair, final_review) over the markdown task file, with the  *)
(* language model, the three tools, the file system and the websocket as   *)
(* its environment.                                                        *)
(*                                                                         *)
(* Text is modelled as sequences of one-character strings, so that the     *)
(* line recognisers of create_task_list and execute_tasks are computed as  *)
(* the code computes them.                                                 *)
(*                                                                         *)
(* send_prompt is llm_handler.simple_prompt: it answers with the reply     *)
(* text or with None (no client, or the chat call raised).  agent.py binds *)
(* its arguments by the names model_name / system_message at lines 149 and *)
(* 322; the model takes those calls as calls of that collaborator.         *)
(*                                                                         *)
(* Spec is one run of handle_agent_workflow.  ServerSpec is the server of  *)
(* backend/app/main.py with two client connections, whose runs share the   *)
(* process environment, the task directory and the clock.  ToolSpec is one *)
(* call of a tool of backend/app/tools and the subprocesses it waits for.  *)
(***************************************************************************)
EXTENDS Integers, Sequences, FiniteSets, TLC

(***************************************************************************)
(* Bounds of the model.                                                    *)
(***************************************************************************)
MaxPlanLines == 2

\* the last second of the server's clock
MaxClock == 1

(***************************************************************************)
(* Constants of the program.                                               *)
(***************************************************************************)
\* "retry (max 2)" of SYSTEM_PROMPT
RetryCeiling == 2

(***************************************************************************)
(* Characters and strings.                                                 *)
(***************************************************************************)
None == <<"<None>">>

Digits == {"0", "1", "2", "3", "4", "5", "6", "7", "8", "9"}

IsSpace(c) == c \in {" ", "\n", "\t"}

IsDigit(c) == c \in Digits

Lower(c) ==
    CASE c = "S" -> "s"
      [] c = "U" -> "u"
      [] c = "I" -> "i"
      [] c = "N" -> "n"
      [] OTHER -> c

LowerStr(s) == [k \in 1..Len(s) |-> Lower(s[k])]

\* first position >= i of s that is not whitespace (Len(s)+1 when none)
RECURSIVE SkipSpaces(_, _)
SkipSpaces(s, i) ==
    IF i > Len(s) THEN Len(s) + 1
    ELSE IF IsSpace(s[i]) THEN SkipSpaces(s, i + 1) ELSE i

\* first position >= i of s that is not a digit (Len(s)+1 when none)
RECURSIVE SkipDigits(_, _)
SkipDigits(s, i) ==
    IF i > Len(s) THEN Len(s) + 1
    ELSE IF IsDigit(s[i]) THEN SkipDigits(s, i + 1) ELSE i

\* last position <= i of s that is not whitespace (0 when none)
RECURSIVE SkipSpacesBack(_, _)
SkipSpacesBack(s, i) ==
    IF i < 1 THEN 0
    ELSE IF IsSpace(s[i]) THEN SkipSpacesBack(s, i - 1) ELSE i

\* str.strip()
Strip(s) ==
    LET a == SkipSpaces(s, 1)
        b == SkipSpacesBack(s, Len(s))
    IN  IF a > b THEN <<>> ELSE SubSeq(s, a, b)

\* s[i:] starts with p
PrefixAt(s, i, p) ==
    /\ i + Len(p) - 1 <= Len(s)
    /\ \A k \in 1..Len(p) : s[i + k - 1] = p[k]

\* str.startswith
StartsWith(s, p) == PrefixAt(s, 1, p)

\* str.find, 1-based; 0 when p does not occur in s
RECURSIVE FindFrom(_, _, _)
FindFrom(s, p, i) ==
    IF i + Len(p) - 1 > Len(s) THEN 0
    ELSE IF PrefixAt(s, i, p) THEN i ELSE FindFrom(s, p, i + 1)

Find(s, p) == FindFrom(s, p, 1)

\* p in s
Contains(s, p) == Find(s, p) > 0

\* str.isdigit()
IsDigitStr(s) == Len(s) > 0 /\ \A k \in 1..Len(s) : IsDigit(s[k])

\* str.replace(old, new), every occurrence, left to right
RECURSIVE Replace(_, _, _)
Replace(s, old, new) ==
    LET k == Find(s, old)
    IN  IF k = 0 THEN s
        ELSE SubSeq(s, 1, k - 1) \o new
             \o Replace(SubSeq(s, k + Len(old), Len(s)), old, new)

Box == <<"[", " ", "]">>

BoxDone == <<"[", "x", "]">>

Satisfactory == <<"s", "a", "t", "i", "s", "f", "a", "c", "t", "o", "r", "y">>

(***************************************************************************)
(* The task lines: create_task_list's list_item_pattern and the checks of  *)
(* execute_tasks.                                                          *)
(***************************************************************************)

\* re.compile(r"^\s*(\d+\.|[-*])\s*\[\s*\]\s*.*").match(s)
ListItemPattern(s) ==
    LET a == SkipSpaces(s, 1)
        d == SkipDigits(s, a)
        b == IF a <= Len(s) /\ s[a] \in {"-", "*"} THEN a + 1
             ELSE IF d > a /\ d <= Len(s) /\ s[d] = "." THEN d + 1
             ELSE 0
        c == IF b = 0 THEN 0 ELSE SkipSpaces(s, b)
        e == IF c = 0 \/ c > Len(s) THEN 0
             ELSE IF s[c] = "[" THEN SkipSpaces(s, c + 1) ELSE 0
    IN  e # 0 /\ e <= Len(s) /\ s[e] = "]"

\* the parsing loop of create_task_list over the reply's lines
RECURSIVE ExtractFrom(_, _, _)
ExtractFrom(text, k, in_list) ==
    IF k > Len(text) THEN <<>>
    ELSE IF ListItemPattern(Strip(text[k]))
         THEN <<text[k]>> \o ExtractFrom(text, k + 1, TRUE)
    ELSE IF in_list /\ Strip(text[k]) = <<>>
         THEN ExtractFrom(text, k + 1, in_list)
    ELSE IF in_list THEN <<>>
    ELSE ExtractFrom(text, k + 1, in_list)

\* lines = task_list_md.strip().splitlines(): the strip takes the first
\* line's leading and the last line's trailing whitespace
ExtractLines(text) ==
    LET stripped(k) ==
            LET a == IF k = 1 THEN SkipSpaces(text[k], 1) ELSE 1
                b == IF k = Len(text) THEN SkipSpacesBack(text[k], Len(text[k]))
                     ELSE Len(text[k])
            IN  SubSeq(text[k], a, b)
    IN  ExtractFrom([k \in 1..Len(text) |-> stripped(k)], 1, FALSE)

\* "\n".join(extracted_lines) written to the file, as readlines() returns it
FileLines(extracted) ==
    [k \in 1..Len(extracted) |->
        IF k < Len(extracted) THEN extracted[k] \o <<"\n">> ELSE extracted[k]]

DashBox == <<"-", " ", "[", " ", "]">>

StarBox == <<"*", " ", "[", " ", "]">>

DotBox == <<".", " ", "[", " ", "]">>

\* is_incomplete of execute_tasks for line_stripped
IsIncomplete(ls) ==
    \/ StartsWith(ls, DashBox)
    \/ StartsWith(ls, StarBox)
    \/ /\ Contains(ls, DotBox)
       /\ IsDigitStr(SubSeq(ls, 1, Find(ls, DotBox) - 1))

\* task_prefix of execute_tasks for an incomplete line_stripped
TaskPrefix(ls) ==
    IF StartsWith(ls, DashBox) \/ StartsWith(ls, StarBox)
    THEN SubSeq(ls, 1, Find(ls, <<"]">>) - 1) \o <<"]", " ">>
    ELSE SubSeq(ls, 1, Find(ls, DotBox) - 1) \o DotBox \o <<" ">>

\* task_desc = line_stripped.split("]", 1)[1].strip()
TaskDesc(ls) == Strip(SubSeq(ls, Find(ls, <<"]">>) + 1, Len(ls)))

\* the line written for a task that passed its review
MarkedLine(ls) == Replace(TaskPrefix(ls), Box, BoxDone) \o TaskDesc(ls) \o <<"\n">>

(***************************************************************************)
(* The inputs of a run: what the language model, the tools and the file    *)
(* system may answer.                                                      *)
(***************************************************************************)
LnNum == <<"1", ".", " ", "[", " ", "]", " ", "a">>

LnDash == <<"-", " ", "[", " ", "]", " ", "b">>

LnTight == <<"2", ".", "[", " ", "]", " ", "c">>

LnProse == <<"o", "k">>

\* a list item with nothing after its checkbox
LnBare == <<"3", ".", " ", "[", " ", "]">>

\* an indented list item
LnNested == <<" ", "-", " ", "[", " ", "]", " ", "d">>

PlanLinePool == {LnNum, LnDash, LnTight, LnProse, LnBare, LnNested}

RECURSIVE SeqsUpTo(_, _)
SeqsUpTo(S, n) ==
    IF n = 0 THEN {<<>>}
    ELSE LET shorter == SeqsUpTo(S, n - 1)
         IN  shorter \cup {Append(t, x) : t \in {u \in shorter : Len(u) = n - 1}, x \in S}

\* the planning replies that are a text (the empty text included)
PlanTexts == SeqsUpTo(PlanLinePool, MaxPlanLines)

KnownTools == {"code_interpreter", "shell_terminal", "browser", "none"}

RealTools == {"code_interpreter", "shell_terminal", "browser"}

\* A tool-selection reply: how the JSON object is wrapped and what it holds.
\*   wrap: "None" (no reply), "empty" (""), "text" (no braces at all),
\*         "json" (```json fence), "generic" (``` fence), "bare" (the object)
\*   body: "object" (a JSON object), "bad" (braces around invalid JSON)
\*   tool: the object's tool_name; "<missing>" when the key is absent,
\*         "<null>" when it is not a string
SelectReply(wrap, body, tool) == [wrap |-> wrap, body |-> body, tool |-> tool]

SelectReplies ==
    { SelectReply("None", "-", "-"),
      SelectReply("empty", "-", "-"),
      SelectReply("text", "-", "-"),
      SelectReply("bare", "bad", "-"),
      SelectReply("bare", "object", "code_interpreter"),
      SelectReply("bare", "object", "none"),
      SelectReply("bare", "object", "foo"),
      SelectReply("bare", "object", "<missing>"),
      SelectReply("bare", "object", "<null>"),
      SelectReply("bare", "object", "browser"),
      SelectReply("json", "object", "shell_terminal"),
      SelectReply("generic", "object", "browser") }

\* the context hint that stands for "no earlier step"
ThreadPlaceholder == "No output from previous steps."

\* the tool_input of a tool-selection reply; "<missing>" when the key is absent
ReplyInputs == {"<missing>", "ls"}

ToolOutputs == {"Exit Code: 0", "Exit Code: 1"}

RvSatisfactory == <<"S">> \o SubSeq(Satisfactory, 2, Len(Satisfactory))

RvUnsatisfactory == <<"U", "n">> \o Satisfactory

RvIssue == <<"I", "s", "s", "u", "e">>

RvFailed == <<"R", "e", "v", "i", "e", "w", " ", "f", "a", "i", "l", "e", "d", ".">>

\* None, "" and three texts
ReviewReplies == {None, <<>>, RvSatisfactory, RvUnsatisfactory, RvIssue}

FinalReplies == {None, <<>>, <<"a", "n", "s", "w", "e", "r">>}

(***************************************************************************)
(* The messages sent on the websocket.                                     *)
(***************************************************************************)
MsgProcessing == "Agent: Processing request..."

MsgCreating == "Agent: Creating task list using ..."

MsgRequesting == "Agent: Requesting task list..."

MsgSaved == "Agent: Task list saved."

MsgCannotSave == "Agent Error: Cannot save task list"

MsgCreated == "Agent: Task list created"

MsgExecuting == "Agent: Executing tasks ..."

MsgStarting == "Agent: Starting task"

MsgBadJson == "Agent Warning: Could not parse extracted JSON"

MsgNoJson == "Agent Warning: No JSON structure found."

MsgSelectFailed == "Agent Error: LLM select failed"

MsgTool == "Agent: Tool: ..., Input: ..."

MsgNoTool == "Agent: No tool needed."

MsgOutput == "Agent: Output (trunc)"

MsgToolError == "Agent Error: Tool error"

MsgSelectionFailed == "Agent Warning: Tool selection failed."

MsgReviewing == "Agent: Reviewing task ..."

MsgReviewFailed == "Agent Error: LLM review failed."

MsgAttention == "Agent: Task attention. Review"

MsgReview == "Agent: Review"

MsgStopping == "Agent: Task failed review. Stopping."

MsgFinished == "Agent: Task execution finished."

MsgStopped == "Agent: Task execution stopped."

MsgLoopError == "Agent Error: Error in task execution loop"

MsgFinalReview == "Agent: Final review ..."

MsgRequestingFinal == "Agent: Requesting final summary"

MsgCannotRead == "Agent Error: Cannot read task file"

MsgFinalFailed == "Agent Error: LLM failed final response."

MsgSummary == "Agent: Final summary generated."

MsgFinalAnswer == "Agent: Final Response: <answer>"

MsgFinalNoAnswer == "Agent: Final Response: Agent Error: Could not generate final response."

MsgFinalUnread == "Agent: Final Response: Error reading task file."

MsgWorkflowError == "Agent Error: Workflow error"

MsgComplete == "Agent: Workflow complete."

\* the wrapper's announcement of a tool call
MsgWrapper(tool) ==
    CASE tool = "code_interpreter" -> "Agent: Executing Python code..."
      [] tool = "shell_terminal" -> "Agent: Executing shell command..."
      [] tool = "browser" -> "Agent: Browsing website..."

ErrorMsgs ==
    {MsgCannotSave, MsgSelectFailed, MsgToolError, MsgReviewFailed, MsgLoopError,
     MsgCannotRead, MsgFinalFailed, MsgWorkflowError}

(***************************************************************************)
(* The state of one run.                                                   *)
(***************************************************************************)
VARIABLES
    pc,            \* where handle_agent_workflow stands
    connected,     \* the client's websocket is still there
    log,           \* the messages sent on the websocket, in order
    file,          \* the lines of the task file on disk
    lines,         \* execute_tasks: the lines read from the file
    i,             \* execute_tasks: the loop index (1-based)
    all_tasks_ok,  \* execute_tasks
    tool_name,     \* execute_tasks
    output,        \* execute_tasks
    err,           \* execute_tasks
    tool_input,    \* execute_tasks: "<task_desc>" or the reply's tool_input
    json_start,    \* execute_tasks: "unbound", "none" (-1) or "found"
    requests,      \* the send_prompt calls made so far, in order
    plan_kind,     \* what the planning reply was: unset, none, nolist, list
    status,        \* per line of the task list: pending, running, done, error
    selected,      \* per line of the task list: the tool_name selected for it
    inflight,      \* the tasks whose tool call has not returned
    dispatched,    \* the tool calls made so far, in order
    raised,        \* the tasks whose tool call raised
    excs           \* the places of the run where an exception was raised

runVars == <<pc, connected, log, file, lines, i, all_tasks_ok, tool_name, tool_input,
          output, err, json_start, requests, plan_kind, status, selected, inflight,
          dispatched, raised, excs>>

loopVars == <<lines, i, all_tasks_ok, tool_name, tool_input, output, err, json_start,
              status, selected>>

toolVars == <<inflight, dispatched, raised>>

Terminal == {"done", "propagated"}

(***************************************************************************)
(* main.py: the server process and its websocket connections.              *)
(***************************************************************************)
Conns == {1, 2}

\* a key that the client's payload or os.environ does not have
Absent == "<absent>"

PLANNING_TOOLING_MODEL == "llama3:latest"

\* the model names a client's payload may carry
PayloadModels == {Absent, "modelA"}

\* the queries a client's payload may carry: "", null and two texts
Queries == {<<>>, None, <<"a", "?">>, <<"a", "!">>}

\* the length of the query's prefix that goes into the file name
NamePrefixLen == 30

\* str.rstrip()
RECURSIVE RStrip(_)
RStrip(s) ==
    IF s # <<>> /\ IsSpace(s[Len(s)]) THEN RStrip(SubSeq(s, 1, Len(s) - 1)) ELSE s

safe_filename_base(user_input) ==
    LET n == IF Len(user_input) < NamePrefixLen THEN Len(user_input)
             ELSE NamePrefixLen
        alnum == Digits \cup {"a", "b", "c", "d", "e", "f", "g", "h", "i", "j", "k",
                              "l", "m", "n", "o", "p", "q", "r", "s", "t", "u", "v",
                              "w", "x", "y", "z"}
    IN  RStrip([k \in 1..n |->
                   IF user_input[k] \in alnum \cup {" ", "_", "-"}
                   THEN user_input[k] ELSE "_"])

\* the file name: the sanitised prefix and the second of the clock
TaskFilePath(user_input, timestamp) == <<safe_filename_base(user_input), timestamp>>

\* the paths create_task_list may write
Paths == {TaskFilePath(q, t) : q \in Queries \ {<<>>}, t \in 0..MaxClock}

\* task_file_path = None
NoPath == <<>>

VARIABLES
    spc,                    \* per connection: where websocket_endpoint stands
    current_planner_model,  \* per connection
    current_browser_model,  \* per connection
    current_code_model,     \* per connection
    environ,                \* os.environ of the server process
    user_query,             \* per connection: the query of its run
    task_file_path,         \* per connection: the path of its run's task file
    task_dir,               \* TASK_DIR: per path, the connection whose run wrote
                            \* the file last (0: no such file)
    now,                    \* the clock of the server, in seconds
    answered,               \* per connection: the messages sent to the client
                            \* since its last message was received
    planning_model,         \* per connection: the model its run planned with
    read_from,              \* per connection: the writer of the task list its
                            \* run has read last
    child_env               \* per connection: the environment the tool
                            \* subprocess of its run was given

serverVars == <<spc, current_planner_model, current_browser_model, current_code_model,
                environ, user_query, task_file_path, task_dir, now, answered,
                planning_model, read_from, child_env>>

(***************************************************************************)
(* tools/: one call of a tool and the subprocesses it waits for.           *)
(***************************************************************************)
\* the subprocesses: the shell command, the script's two attempts, the pip
\* install, the browser helper
ProcNames == {"command", "script1", "pip", "script2", "helper"}

VARIABLES
    callee,            \* the tool that is called ("none" before the call)
    tpc,               \* where the call stands: idle, the subprocess it waits
                       \* for, returned, raised
    procs,             \* per subprocess: unborn, running, killed, or the exit
                       \* code it ended with
    attempt,           \* exit_code, stdout, stderr of the last subprocess the
                       \* call has waited for
    final_result_str,  \* the text the call returned, in its parts
    usable,            \* the websocket takes the tool's messages
    timedout,          \* the waits that ran into their timeout
    full_command,      \* the command execute_shell_command was called with
    script_file,       \* the file at script_path: none, present, removed
    hpc,               \* run_browser_task.py: start, run_task, finally, exited
    input_json_str,    \* run_browser_task.py: sys.argv[1] ("<no argv>" without)
    result_data,       \* run_browser_task.py: its key and its value
    printed,           \* run_browser_task.py: the keys of the objects on stdout
    exit_status,       \* run_browser_task.py: the code it exited with
    browser_instance,  \* run_task: None, open, closed
    context_instance   \* run_task: None, open, closed

\* the state of the browser helper process
helperVars == <<hpc, input_json_str, result_data, printed, exit_status,
                browser_instance, context_instance>>

callVars == <<callee, tpc, procs, attempt, final_result_str, usable, timedout,
              full_command, script_file, helperVars>>

\* a tool is about to be called
CallInit ==
    /\ callee = "none"
    /\ tpc = "idle"
    /\ procs = [p \in ProcNames |-> "unborn"]
    /\ attempt = [exit_code |-> "", stdout |-> "", stderr |-> ""]
    /\ final_result_str = <<>>
    /\ usable = TRUE
    /\ timedout = {}
    /\ full_command = <<>>
    /\ script_file = "none"
    /\ hpc = "start"
    /\ input_json_str = ""
    /\ result_data = [key |-> "", value |-> ""]
    /\ printed = <<>>
    /\ exit_status = ""
    /\ browser_instance = "None"
    /\ context_instance = "None"

\* the state outside a run of handle_agent_workflow
outsideRun == <<serverVars, callVars>>

vars == <<runVars, outsideRun>>

\* the server process has started and no client has connected
ServerInit ==
    /\ spc = [c \in Conns |-> "connecting"]
    /\ current_planner_model = [c \in Conns |-> Absent]
    /\ current_browser_model = [c \in Conns |-> Absent]
    /\ current_code_model = [c \in Conns |-> Absent]
    /\ environ = [BROWSER_AGENT_INTERNAL_MODEL |-> Absent, DEEPCODER_MODEL |-> Absent]
    /\ user_query = [c \in Conns |-> <<>>]
    /\ task_file_path = [c \in Conns |-> NoPath]
    /\ task_dir = [p \in Paths |-> 0]
    /\ now = 0
    /\ answered = [c \in Conns |-> <<>>]
    /\ planning_model = [c \in Conns |-> {}]
    /\ read_from = [c \in Conns |-> {}]
    /\ child_env = [c \in Conns |-> {}]

\* a run of handle_agent_workflow is about to start
RunInit ==
    /\ pc = "start"
    /\ connected = TRUE
    /\ log = <<>>
    /\ file = <<>>
    /\ lines = <<>>
    /\ i = 1
    /\ all_tasks_ok = TRUE
    /\ tool_name = "unknown"
    /\ tool_input = "<task_desc>"
    /\ output = "Output placeholder"
    /\ err = FALSE
    /\ json_start = "unbound"
    /\ requests = <<>>
    /\ plan_kind = "unset"
    /\ status = <<>>
    /\ selected = <<>>
    /\ inflight = {}
    /\ dispatched = <<>>
    /\ raised = {}
    /\ excs = {}

Init == RunInit /\ ServerInit /\ CallInit

\* send_prompt is called for `kind` (on behalf of line `task`, 0 when none)
Ask(kind, task) == requests' = Append(requests, [kind |-> kind, task |-> task])

\* the number of send_prompt calls made for the tool selection of line k
Selections(k) ==
    Cardinality({r \in DOMAIN requests : requests[r] = [kind |-> "select", task |-> k]})

\* the number of tool calls made for line k
Dispatches(k) == Cardinality({d \in DOMAIN dispatched : dispatched[d].task = k})

\* line k has been reviewed
Reviewed(k) == \E r \in DOMAIN requests : requests[r] = [kind |-> "review", task |-> k]

\* the number of send_prompt calls made for `kind`
Asked(kind) == Cardinality({k \in DOMAIN requests : requests[k].kind = kind})

\* the message m has been sent
InLog(m) == \E k \in DOMAIN log : log[k] = m

\* websocket.send_text on a connection that is there
Send(msgs) == log' = log \o msgs

\* websocket.send_text on a lost connection raises; every handler on the way
\* out sends again, so the exception leaves handle_agent_workflow
Propagate == pc' = "propagated" /\ UNCHANGED log

(***************************************************************************)
(* handle_agent_workflow and create_task_list.                             *)
(***************************************************************************)

\* handle_agent_workflow up to the planning request
Start ==
    /\ pc = "start"
    /\ connected
    /\ Send(<<MsgProcessing, MsgCreating, MsgRequesting>>)
    /\ pc' = "plan_request"
    /\ UNCHANGED <<connected, file, requests, plan_kind>>
    /\ UNCHANGED loopVars
    /\ UNCHANGED toolVars
    /\ UNCHANGED excs
    /\ UNCHANGED outsideRun

\* RequestPlan that takes a reply without a task line for a plan with no
\* steps and goes to the end of the run without raising
RequestPlanEmptyIsNotice ==
    /\ pc = "plan_request"
    /\ Ask("plan", 0)
    /\ \/ /\ plan_kind' = "none"
          /\ pc' = "wf_except"
          /\ excs' = excs \cup {"plan"}
          /\ UNCHANGED file
       \/ \E text \in PlanTexts :
            IF Len(ExtractLines(text)) = 0
            THEN /\ plan_kind' = "nolist"
                 /\ pc' = "finally"
                 /\ UNCHANGED <<file, excs>>
            ELSE /\ plan_kind' = "list"
                 /\ file' = FileLines(ExtractLines(text))
                 /\ pc' = "plan_saved"
                 /\ UNCHANGED excs
    /\ UNCHANGED <<connected, log>>
    /\ UNCHANGED loopVars
    /\ UNCHANGED toolVars
    /\ UNCHANGED outsideRun

\* RequestPlan without the check of line 162: an empty extraction is saved
RequestPlanNoCheck ==
    /\ pc = "plan_request"
    /\ Ask("plan", 0)
    /\ \/ /\ plan_kind' = "none"
          /\ pc' = "wf_except"
          /\ excs' = excs \cup {"plan"}
          /\ UNCHANGED <<file, log>>
       \/ \E text \in PlanTexts :
            /\ plan_kind' = IF Len(ExtractLines(text)) = 0 THEN "nolist" ELSE "list"
            /\ file' = FileLines(ExtractLines(text))
            /\ pc' = "plan_saved"
            /\ UNCHANGED <<log, excs>>
    /\ UNCHANGED connected
    /\ UNCHANGED loopVars
    /\ UNCHANGED toolVars
    /\ UNCHANGED outsideRun

\* create_task_list: the planning request, the parsing of the reply and the
\* writing of the task file
RequestPlan ==
    /\ pc = "plan_request"
    /\ Ask("plan", 0)
    /\ \/ \* the reply is None
          /\ plan_kind' = "none"
          /\ pc' = "wf_except"
          /\ excs' = excs \cup {"plan"}
          /\ UNCHANGED <<file, log>>
       \/ \E text \in PlanTexts :
            LET extracted == ExtractLines(text)
            IN  IF Len(extracted) = 0
                THEN /\ plan_kind' = "nolist"
                     /\ pc' = "wf_except"
                     /\ excs' = excs \cup {"plan"}
                     /\ UNCHANGED <<file, log>>
                ELSE /\ plan_kind' = "list"
                     /\ \/ /\ file' = FileLines(extracted)
                           /\ pc' = "plan_saved"
                           /\ UNCHANGED <<log, excs>>
                        \/ \* open or write raises IOError
                           /\ log' = IF connected THEN log \o <<MsgCannotSave>> ELSE log
                           /\ pc' = "wf_except"
                           /\ excs' = excs \cup {"save"}
                           /\ UNCHANGED file
    /\ UNCHANGED connected
    /\ UNCHANGED loopVars
    /\ UNCHANGED toolVars
    /\ UNCHANGED outsideRun

\* the return of create_task_list and the entry of execute_tasks
EnterExecute ==
    /\ pc = "plan_saved"
    /\ connected
    /\ \/ /\ Send(<<MsgSaved, MsgCreated, MsgExecuting>>)
          /\ lines' = file
          /\ i' = 1
          /\ all_tasks_ok' = TRUE
          /\ status' = [k \in 1..Len(file) |-> "pending"]
          /\ selected' = [k \in 1..Len(file) |-> "-"]
          /\ pc' = "loop"
          /\ UNCHANGED excs
       \/ \* os.path.exists says no: FileNotFoundError
          /\ Send(<<MsgSaved, MsgCreated, MsgExecuting>>)
          /\ pc' = "wf_except"
          /\ excs' = excs \cup {"exists"}
          /\ UNCHANGED <<lines, i, all_tasks_ok, status, selected>>
       \/ \* open or readlines raises
          /\ Send(<<MsgSaved, MsgCreated, MsgExecuting, MsgLoopError>>)
          /\ pc' = "wf_except"
          /\ excs' = excs \cup {"open"}
          /\ UNCHANGED <<lines, i, all_tasks_ok, status, selected>>
    /\ UNCHANGED <<connected, file, requests, plan_kind, tool_name, tool_input,
                   output, err, json_start>>
    /\ UNCHANGED toolVars
    /\ UNCHANGED outsideRun

(***************************************************************************)
(* execute_tasks.                                                          *)
(***************************************************************************)
AtTask == pc = "loop" /\ i <= Len(lines) /\ IsIncomplete(Strip(lines[i]))

\* the for loop is exhausted
LoopDone ==
    /\ pc = "loop"
    /\ i > Len(lines)
    /\ pc' = "write_back"
    /\ UNCHANGED <<connected, log, file, requests, plan_kind>>
    /\ UNCHANGED loopVars
    /\ UNCHANGED toolVars
    /\ UNCHANGED excs
    /\ UNCHANGED outsideRun

\* a line that is not an incomplete task is kept as it is
SkipLine ==
    /\ pc = "loop"
    /\ i <= Len(lines)
    /\ ~IsIncomplete(Strip(lines[i]))
    /\ i' = i + 1
    /\ UNCHANGED <<pc, connected, log, file, requests, plan_kind, lines, all_tasks_ok,
                   tool_name, output, err, json_start, status, selected>>
    /\ UNCHANGED toolVars
    /\ UNCHANGED <<tool_input, excs>>
    /\ UNCHANGED outsideRun

StartTask ==
    /\ AtTask
    /\ connected
    /\ Send(<<MsgStarting>>)
    /\ tool_name' = "unknown"
    /\ tool_input' = "<task_desc>"
    /\ status' = [status EXCEPT ![i] = "running"]
    /\ pc' = "select"
    /\ UNCHANGED <<connected, file, requests, plan_kind, lines, i, all_tasks_ok, output,
                   err, json_start, selected>>
    /\ UNCHANGED toolVars
    /\ UNCHANGED excs
    /\ UNCHANGED outsideRun

\* The tool selection of one task: what lines 216-242 make of the reply r
\* when json_start is js.  raises: an exception reaches the handler of line
\* 244; warn: the warnings sent before that; tool: tool_name; js: json_start
\* afterwards; input: line 228 has bound tool_input from the reply.
SelectOutcome(r, js) ==
    LET truthy == r.wrap \notin {"None", "empty"}
        js1 == IF r.wrap = "bare" THEN "found"
               ELSE IF r.wrap = "text" THEN "none"
               ELSE js
        \* json_str_to_parse; the slice that stale indices cut out of a
        \* fenced reply starts with the fence and is no JSON
        parsed == IF r.wrap \in {"json", "bare"} THEN r.body
                  ELSE IF r.wrap = "generic"
                       THEN IF js = "found" THEN "bad" ELSE r.body
                  ELSE "nothing"
        raise(w) == [raises |-> TRUE, warn |-> w, tool |-> "unknown", js |-> js1,
                     input |-> FALSE]
        unknown(w) == [raises |-> FALSE, warn |-> w, tool |-> "unknown", js |-> js1,
                       input |-> FALSE]
    IN  IF r.wrap = "generic" /\ js = "unbound" THEN raise(<<>>)
        ELSE IF parsed = "nothing"
             THEN IF truthy \/ r.wrap = "empty"
                  THEN unknown(<<MsgNoJson>>)
                  ELSE raise(<<MsgNoJson>>)
        ELSE IF parsed = "bad" THEN unknown(<<MsgBadJson>>)
        ELSE IF r.tool = "<null>" THEN raise(<<>>)
        ELSE [raises |-> FALSE, warn |-> <<>>, js |-> js1, input |-> TRUE,
              tool |-> IF r.tool \in KnownTools THEN r.tool ELSE "unknown"]

\* the tool selection of lines 214-247 when the model's reply is r with the
\* tool_input inp
SelectToolOn(r, inp) ==
    /\ pc = "select"
    /\ Ask("select", i)
    /\ LET o == SelectOutcome(r, json_start)
       IN  /\ json_start' = o.js
           /\ IF ~connected
              THEN /\ Propagate
                   /\ UNCHANGED <<tool_name, tool_input, all_tasks_ok, status,
                                  selected, excs>>
              ELSE IF o.raises
              THEN /\ Send(o.warn \o <<MsgSelectFailed>>)
                   /\ tool_name' = "unknown"
                   /\ selected' = [selected EXCEPT ![i] = "unknown"]
                   /\ all_tasks_ok' = FALSE
                   /\ status' = [status EXCEPT ![i] = "error"]
                   /\ excs' = excs \cup {"select"}
                   /\ pc' = "write_back"
                   /\ UNCHANGED tool_input
              ELSE /\ Send(o.warn \o <<MsgTool>>)
                   /\ tool_name' = o.tool
                   /\ tool_input' = IF o.input /\ inp # "<missing>" THEN inp
                                    ELSE tool_input
                   /\ selected' = [selected EXCEPT ![i] = o.tool]
                   /\ pc' = "tool"
                   /\ UNCHANGED <<all_tasks_ok, status, excs>>
    /\ output' = "Output placeholder"
    /\ err' = FALSE
    /\ UNCHANGED <<connected, file, plan_kind, lines, i>>
    /\ UNCHANGED toolVars
    /\ UNCHANGED outsideRun

SelectTool == \E r \in SelectReplies, inp \in ReplyInputs : SelectToolOn(r, inp)

ToolNone ==
    /\ pc = "tool"
    /\ tool_name = "none"
    /\ connected
    /\ output' = "No tool needed."
    /\ Send(<<MsgNoTool>>)
    /\ pc' = "review"
    /\ UNCHANGED <<connected, file, requests, plan_kind, lines, i, all_tasks_ok,
                   tool_name, err, json_start, status, selected>>
    /\ UNCHANGED toolVars
    /\ UNCHANGED <<tool_input, excs>>
    /\ UNCHANGED outsideRun

\* ToolUnknown that stays on the task instead of going on to the next line
ToolUnknownRetries ==
    /\ pc = "tool"
    /\ tool_name = "unknown"
    /\ connected
    /\ output' = "Tool selection failed."
    /\ Send(<<MsgSelectionFailed>>)
    /\ all_tasks_ok' = FALSE
    /\ status' = [status EXCEPT ![i] = "error"]
    /\ pc' = "loop"
    /\ UNCHANGED <<connected, file, requests, plan_kind, lines, i, tool_name, err,
                   json_start, selected>>
    /\ UNCHANGED toolVars
    /\ UNCHANGED <<tool_input, excs>>
    /\ UNCHANGED outsideRun

ToolUnknown ==
    /\ pc = "tool"
    /\ tool_name = "unknown"
    /\ connected
    /\ output' = "Tool selection failed."
    /\ Send(<<MsgSelectionFailed>>)
    /\ all_tasks_ok' = FALSE
    /\ status' = [status EXCEPT ![i] = "error"]
    /\ i' = i + 1
    /\ pc' = "loop"
    /\ UNCHANGED <<connected, file, requests, plan_kind, lines, tool_name, err,
                   json_start, selected>>
    /\ UNCHANGED toolVars
    /\ UNCHANGED <<tool_input, excs>>
    /\ UNCHANGED outsideRun

\* DispatchTool that starts the tool call and does not await it
DispatchToolNoAwait ==
    /\ pc = "tool"
    /\ tool_name \in RealTools
    /\ connected
    /\ Send(<<MsgWrapper(tool_name)>>)
    /\ inflight' = inflight \cup {i}
    /\ dispatched' = Append(dispatched, [task |-> i, tool |-> tool_name])
    /\ pc' = "review"
    /\ UNCHANGED <<connected, file, requests, plan_kind, raised>>
    /\ UNCHANGED loopVars
    /\ UNCHANGED excs
    /\ UNCHANGED outsideRun

\* DispatchTool that calls the tool before it announces the call
DispatchToolUnannounced ==
    /\ pc = "tool"
    /\ tool_name \in RealTools
    /\ log' = IF connected THEN log \o <<MsgWrapper(tool_name)>> ELSE log
    /\ inflight' = inflight \cup {i}
    /\ dispatched' = Append(dispatched, [task |-> i, tool |-> tool_name])
    /\ pc' = "in_tool"
    /\ UNCHANGED <<connected, file, requests, plan_kind, raised>>
    /\ UNCHANGED loopVars
    /\ UNCHANGED excs
    /\ UNCHANGED outsideRun

\* the wrapper announces the call and awaits the tool
DispatchTool ==
    /\ pc = "tool"
    /\ tool_name \in RealTools
    /\ connected
    /\ Send(<<MsgWrapper(tool_name)>>)
    /\ inflight' = inflight \cup {i}
    /\ dispatched' = Append(dispatched, [task |-> i, tool |-> tool_name])
    /\ pc' = "in_tool"
    /\ UNCHANGED <<connected, file, requests, plan_kind, raised>>
    /\ UNCHANGED loopVars
    /\ UNCHANGED excs
    /\ UNCHANGED outsideRun

\* the tool call returns its text; the browser's never does: the wrapper of
\* lines 93-97 calls browse_website(browse_details, websocket) without the
\* keyword browser_model that the tool requires, which raises TypeError
ToolReturns ==
    /\ pc = "in_tool"
    /\ tool_name # "browser"
    /\ inflight' = inflight \ {i}
    /\ \E out \in ToolOutputs : output' = out
    /\ IF connected
       THEN Send(<<MsgOutput>>) /\ pc' = "review"
       ELSE Propagate
    /\ UNCHANGED <<connected, file, requests, plan_kind, lines, i, all_tasks_ok,
                   tool_name, err, json_start, status, selected, dispatched, raised>>
    /\ UNCHANGED <<tool_input, excs>>
    /\ UNCHANGED outsideRun

ToolRaises ==
    /\ pc = "in_tool"
    /\ inflight' = inflight \ {i}
    /\ raised' = raised \cup {i}
    /\ IF connected
       THEN /\ Send(<<MsgToolError>>)
            /\ output' = "Tool error"
            /\ err' = TRUE
            /\ all_tasks_ok' = FALSE
            /\ status' = [status EXCEPT ![i] = "error"]
            /\ pc' = "review"
       ELSE /\ Propagate
            /\ UNCHANGED <<output, err, all_tasks_ok, status>>
    /\ UNCHANGED <<connected, file, requests, plan_kind, lines, i, tool_name,
                   json_start, selected, dispatched>>
    /\ excs' = excs \cup {"tool"}
    /\ UNCHANGED tool_input
    /\ UNCHANGED outsideRun

\* review_and_repair: the text it returns for the reply rv
ReviewText(rv) == IF rv = None \/ rv = <<>> THEN RvFailed ELSE Strip(rv)

\* review_and_repair: what it sends for the reply rv
ReviewMsgs(rv) ==
    IF rv = None \/ rv = <<>> THEN <<MsgReviewFailed>>
    ELSE IF ~Contains(LowerStr(Strip(rv)), Satisfactory) THEN <<MsgAttention>>
    ELSE <<>>

\* Passes without the "and not err" of line 262
PassesIgnoringErr(review, e) == Contains(LowerStr(review), Satisfactory)

\* the test of line 262
Passes(review, e) == Contains(LowerStr(review), Satisfactory) /\ ~e

\* Review that sends a task that failed its review back to the tool
\* selection, again and again
ReviewRetries ==
    /\ pc = "review"
    /\ connected
    /\ Ask("review", i)
    /\ \E rv \in ReviewReplies :
         IF Passes(ReviewText(rv), err)
         THEN /\ Send(<<MsgReviewing>> \o ReviewMsgs(rv) \o <<MsgReview>>)
              /\ lines' = [lines EXCEPT ![i] = MarkedLine(Strip(lines[i]))]
              /\ status' = [status EXCEPT ![i] = "done"]
              /\ i' = i + 1
              /\ pc' = "loop"
              /\ UNCHANGED all_tasks_ok
         ELSE IF Dispatches(i) <= 1 + RetryCeiling
         THEN /\ Send(<<MsgReviewing>> \o ReviewMsgs(rv) \o <<MsgReview>>)
              /\ pc' = "select"
              /\ UNCHANGED <<lines, i, all_tasks_ok, status>>
         ELSE /\ Send(<<MsgReviewing>> \o ReviewMsgs(rv) \o <<MsgReview, MsgStopping>>)
              /\ all_tasks_ok' = FALSE
              /\ status' = [status EXCEPT ![i] = "error"]
              /\ pc' = "write_back"
              /\ UNCHANGED <<lines, i>>
    /\ UNCHANGED <<connected, file, plan_kind, tool_name, output, err, json_start,
                   selected>>
    /\ UNCHANGED toolVars
    /\ UNCHANGED <<tool_input, excs>>
    /\ UNCHANGED outsideRun

\* the self-review of lines 261-263 when the reviewer's reply is rv
ReviewOn(rv) ==
    /\ pc = "review"
    /\ connected
    /\ Ask("review", i)
    /\ IF Passes(ReviewText(rv), err)
       THEN /\ Send(<<MsgReviewing>> \o ReviewMsgs(rv) \o <<MsgReview>>)
            /\ lines' = [lines EXCEPT ![i] = MarkedLine(Strip(lines[i]))]
            /\ status' = [status EXCEPT ![i] = "done"]
            /\ i' = i + 1
            /\ pc' = "loop"
            /\ UNCHANGED all_tasks_ok
       ELSE /\ Send(<<MsgReviewing>> \o ReviewMsgs(rv) \o <<MsgReview, MsgStopping>>)
            /\ all_tasks_ok' = FALSE
            /\ status' = [status EXCEPT ![i] = "error"]
            /\ pc' = "write_back"
            /\ UNCHANGED <<lines, i>>
    /\ UNCHANGED <<connected, file, plan_kind, tool_name, output, err, json_start,
                   selected>>
    /\ UNCHANGED toolVars
    /\ UNCHANGED <<tool_input, excs>>
    /\ UNCHANGED outsideRun

Review == \E rv \in ReviewReplies : ReviewOn(rv)

\* WriteBack that raises when the execution stopped on a failed task
WriteBackRaisesWhenStopped ==
    /\ pc = "write_back"
    /\ file' = lines
    /\ IF connected
       THEN /\ Send(<<IF all_tasks_ok THEN MsgFinished ELSE MsgStopped>>)
            /\ pc' = IF all_tasks_ok THEN "final_review" ELSE "wf_except"
       ELSE Propagate
    /\ UNCHANGED <<connected, requests, plan_kind>>
    /\ UNCHANGED loopVars
    /\ UNCHANGED toolVars
    /\ UNCHANGED excs
    /\ UNCHANGED outsideRun

\* the lines go back to the file and execute_tasks returns
WriteBack ==
    /\ pc = "write_back"
    /\ \/ /\ file' = lines
          /\ IF connected
             THEN Send(<<IF all_tasks_ok THEN MsgFinished ELSE MsgStopped>>)
                  /\ pc' = "final_review"
             ELSE Propagate
          /\ UNCHANGED excs
       \/ \* seek, writelines or truncate raises
          /\ log' = IF connected THEN log \o <<MsgLoopError>> ELSE log
          /\ pc' = "wf_except"
          /\ excs' = excs \cup {"write"}
          /\ UNCHANGED file
    /\ UNCHANGED <<connected, requests, plan_kind>>
    /\ UNCHANGED loopVars
    /\ UNCHANGED toolVars
    /\ UNCHANGED outsideRun

(***************************************************************************)
(* final_review and the end of handle_agent_workflow.                      *)
(***************************************************************************)
FinalReview ==
    /\ pc = "final_review"
    /\ connected
    /\ \/ /\ Send(<<MsgFinalReview, MsgRequestingFinal>>)
          /\ pc' = "final_request"
          /\ UNCHANGED excs
       \/ \* os.path.exists says no: FileNotFoundError
          /\ Send(<<MsgFinalReview, MsgRequestingFinal>>)
          /\ pc' = "wf_except"
          /\ excs' = excs \cup {"final_exists"}
       \/ \* reading raises IOError: final_review returns an error text
          /\ Send(<<MsgFinalReview, MsgRequestingFinal, MsgCannotRead, MsgFinalUnread>>)
          /\ pc' = "finally"
          /\ excs' = excs \cup {"final_read"}
    /\ UNCHANGED <<connected, file, requests, plan_kind>>
    /\ UNCHANGED loopVars
    /\ UNCHANGED toolVars
    /\ UNCHANGED outsideRun

\* FinalRequest that raises when the reply is empty
FinalRequestRaises ==
    /\ pc = "final_request"
    /\ Ask("final", 0)
    /\ \E reply \in FinalReplies :
         IF ~connected THEN Propagate
         ELSE IF reply = None \/ reply = <<>>
         THEN Send(<<MsgFinalFailed>>) /\ pc' = "wf_except"
         ELSE Send(<<MsgSummary, MsgFinalAnswer>>) /\ pc' = "finally"
    /\ UNCHANGED <<connected, file, plan_kind>>
    /\ UNCHANGED loopVars
    /\ UNCHANGED toolVars
    /\ UNCHANGED excs
    /\ UNCHANGED outsideRun

FinalRequest ==
    /\ pc = "final_request"
    /\ Ask("final", 0)
    /\ \E reply \in FinalReplies :
         IF ~connected THEN Propagate
         ELSE IF reply = None \/ reply = <<>>
         THEN Send(<<MsgFinalFailed, MsgFinalNoAnswer>>) /\ pc' = "finally"
         ELSE Send(<<MsgSummary, MsgFinalAnswer>>) /\ pc' = "finally"
    /\ UNCHANGED <<connected, file, plan_kind>>
    /\ UNCHANGED loopVars
    /\ UNCHANGED toolVars
    /\ UNCHANGED excs
    /\ UNCHANGED outsideRun

\* WorkflowExcept when the closing notice is the last statement of the try
\* body and not a finally clause
WorkflowExceptNoFinally ==
    /\ pc = "wf_except"
    /\ connected
    /\ Send(<<MsgWorkflowError>>)
    /\ pc' = "done"
    /\ UNCHANGED <<connected, file, requests, plan_kind>>
    /\ UNCHANGED loopVars
    /\ UNCHANGED toolVars
    /\ UNCHANGED excs
    /\ UNCHANGED outsideRun

\* WorkflowExcept that passes over the exception without a word
WorkflowExceptSilent ==
    /\ pc = "wf_except"
    /\ connected
    /\ pc' = "finally"
    /\ UNCHANGED <<connected, log, file, requests, plan_kind>>
    /\ UNCHANGED loopVars
    /\ UNCHANGED toolVars
    /\ UNCHANGED excs
    /\ UNCHANGED outsideRun

\* except Exception of handle_agent_workflow
WorkflowExcept ==
    /\ pc = "wf_except"
    /\ connected
    /\ Send(<<MsgWorkflowError>>)
    /\ pc' = "finally"
    /\ UNCHANGED <<connected, file, requests, plan_kind>>
    /\ UNCHANGED loopVars
    /\ UNCHANGED toolVars
    /\ UNCHANGED excs
    /\ UNCHANGED outsideRun

\* finally of handle_agent_workflow
Finally ==
    /\ pc = "finally"
    /\ connected
    /\ Send(<<MsgComplete>>)
    /\ pc' = "done"
    /\ UNCHANGED <<connected, file, requests, plan_kind>>
    /\ UNCHANGED loopVars
    /\ UNCHANGED toolVars
    /\ UNCHANGED excs
    /\ UNCHANGED outsideRun

(***************************************************************************)
(* The client.                                                             *)
(***************************************************************************)
SendsFirst ==
    \/ pc \in {"start", "plan_saved", "tool", "review", "final_review", "wf_except",
               "finally"}
    \/ AtTask

\* the next step starts with a send_text and the connection is lost
SendFails ==
    /\ ~connected
    /\ SendsFirst
    /\ Propagate
    /\ UNCHANGED <<connected, file, requests, plan_kind>>
    /\ UNCHANGED loopVars
    /\ UNCHANGED toolVars
    /\ UNCHANGED excs
    /\ UNCHANGED outsideRun

\* the client goes away while the run is under way
Disconnect ==
    /\ connected
    /\ pc \notin Terminal
    /\ connected' = FALSE
    /\ UNCHANGED <<pc, log, file, requests, plan_kind>>
    /\ UNCHANGED loopVars
    /\ UNCHANGED toolVars
    /\ UNCHANGED excs
    /\ UNCHANGED outsideRun

Next ==
    \/ Start
    \/ RequestPlan
    \/ EnterExecute
    \/ LoopDone
    \/ SkipLine
    \/ StartTask
    \/ SelectTool
    \/ ToolNone
    \/ ToolUnknown
    \/ DispatchTool
    \/ ToolReturns
    \/ ToolRaises
    \/ Review
    \/ WriteBack
    \/ FinalReview
    \/ FinalRequest
    \/ WorkflowExcept
    \/ Finally
    \/ SendFails
    \/ Disconnect

Spec == Init /\ [][Next]_vars

\* a step of the run itself
RunStep ==
    \/ Start \/ RequestPlan \/ EnterExecute \/ LoopDone \/ SkipLine \/ StartTask
    \/ SelectTool \/ ToolNone \/ ToolUnknown \/ DispatchTool \/ ToolReturns
    \/ ToolRaises \/ Review \/ WriteBack \/ FinalReview \/ FinalRequest
    \/ WorkflowExcept \/ Finally \/ SendFails

\* the last message sent is m
LastMsg(m) == Len(log) > 0 /\ log[Len(log)] = m

\* execute_tasks has returned to handle_agent_workflow
ExecReturned == InLog(MsgFinished) \/ InLog(MsgStopped)

(***************************************************************************)
(* The claims.                                                             *)
(***************************************************************************)

\* C1: a run that has ended has "Workflow complete." as its last message,
\* whichever way it went (all tasks done, a task failed, planning failed, an
\* exception in planning, execution or final review); a run never stops
\* short of its end, and the only run that ends without the notice is one
\* whose websocket was lost, so that the notice could not be sent.
C1_TerminalNotice ==
    /\ pc = "done" => LastMsg(MsgComplete)
    /\ pc = "propagated" => ~connected
    /\ pc \notin Terminal => ENABLED RunStep

C1_Witness == pc = "done" /\ InLog(MsgStopped) /\ InLog(MsgWorkflowError)

\* C2: once a task has ended in error the run is marked failed and every
\* later task stays pending (none is started).
C2_HaltsOnError ==
    /\ (\E k \in DOMAIN status : status[k] = "error") => ~all_tasks_ok
    /\ \A k, j \in DOMAIN status :
         k < j /\ status[k] = "error" => status[j] = "pending"

C4_UnknownToolHalts ==
    \A k \in DOMAIN selected :
        selected[k] = "unknown" =>
            /\ \A d \in DOMAIN dispatched : dispatched[d].task # k
            /\ \A r \in DOMAIN requests :
                 ~(requests[r].kind = "review" /\ requests[r].task = k)
            /\ status[k] # "done"
            /\ \A j \in DOMAIN status : j > k => status[j] = "pending"

\* C5: a task that is done or in error keeps that status in every later
\* step; a done task keeps its '[x]' line; and no tool selection or tool
\* call is made for it again.
C5_StatusMonotonic ==
    [][\A k \in DOMAIN status :
         status[k] \in {"done", "error"} =>
            /\ k \in DOMAIN status'
            /\ status'[k] = status[k]
            /\ status[k] = "done" =>
                 Contains(lines[k], BoxDone) /\ lines'[k] = lines[k]
            /\ \A d \in DOMAIN dispatched' :
                 dispatched'[d].task = k => d \in DOMAIN dispatched
            /\ \A r \in DOMAIN requests' :
                 requests'[r] = [kind |-> "select", task |-> k] =>
                     r \in DOMAIN requests]_vars

C5_Witness ==
    /\ pc = "done"
    /\ \E k, j \in DOMAIN status : status[k] = "done" /\ status[j] = "error"

\* C6: at most one tool call is in flight, and only while the loop awaits
\* it; a task is started only when every task line before it has left
\* 'running' (its tool call and review are over) and none was passed over;
\* tool calls are made in plan order.
C6_Sequential ==
    /\ Cardinality(inflight) <= 1
    /\ inflight = IF pc = "in_tool" THEN {i} ELSE {}
    /\ \A k, j \in DOMAIN status :
         k < j /\ status[j] # "pending" =>
            /\ status[k] # "running"
            /\ status[k] = "pending" => ~IsIncomplete(Strip(lines[k]))
    /\ \A d, e \in DOMAIN dispatched :
         d < e => dispatched[d].task < dispatched[e].task

C6_Witness == pc = "in_tool" /\ Len(dispatched) = 2

\* C7: a task whose tool call raised is never done and its line never gets
\* '[x]'; right after the exception the loop is at the review with err set
\* and the error text as output; the exception reaches neither
\* handle_agent_workflow's handler nor its caller.
C7_ToolExceptionCaught ==
    /\ \A k \in raised : status[k] # "done" /\ ~Contains(lines[k], BoxDone)
    /\ connected /\ LastMsg(MsgToolError) =>
         pc = "review" /\ i \in raised /\ err /\ output = "Tool error"
    /\ pc = "propagated" => ~connected

\* the tool raised, the review said satisfactory, and the task failed all the same
C7_Witness ==
    /\ raised # {}
    /\ Contains(log, <<MsgToolError, MsgReviewing, MsgReview, MsgStopping>>)

UnexpectedExcs == excs \ {"plan", "tool"}

\* the exceptions that reach the handler of handle_agent_workflow
FatalExcs == excs \cap {"save", "exists", "open", "write", "final_exists"}

C12_RetryBound ==
    \A k \in DOMAIN status :
        /\ Selections(k) <= 1 + RetryCeiling
        /\ Dispatches(k) <= 1 + RetryCeiling
        /\ Dispatches(k) <= Selections(k)
        /\ k \in raised /\ pc # "propagated" => status[k] = "error"
        /\ Reviewed(k) => status[k] \in {"done", "error"}
        /\ status[k] = "error" /\ pc = "done" => ~Contains(file[k], BoxDone)

\* a task was given to a tool once, failed its review and ended in error
C12_Witness ==
    /\ pc = "done"
    /\ \E k \in DOMAIN status :
         Dispatches(k) = 1 /\ Reviewed(k) /\ status[k] = "error"

\* C13: what the tool of a step is given is the output of the step before
\* it (the value `output` still holds when the step's tool has been
\* selected), and the fixed placeholder for the first step.
C13_ThreadForwarding ==
    [][pc = "select" /\ pc' = "tool" /\ tool_name' \in RealTools =>
         tool_input' = IF \E k \in DOMAIN status : status[k] \in {"done", "error"}
                       THEN output
                       ELSE ThreadPlaceholder]_vars

\* C14: a task whose tool result carries a non-zero exit code is not
\* recorded as done by its review, whatever the reviewer replies.
C14_NonZeroExitFails ==
    [][pc = "review" /\ output = "Exit Code: 1" => status'[i] # "done"]_vars

\* C15: once the connection is lost no tool is called any more; the next
\* send_text observes the loss and ends the run there and then, and a
\* request to the language model that was still made after the loss is
\* followed by that send and by nothing else; a run whose connection was
\* lost never goes on to its completion, and after the loss was observed
\* nothing happens at all.
C15_AbortOnLoss ==
    [][/\ ~connected => dispatched' = dispatched /\ pc' # "done"
       /\ ~connected /\ SendsFirst => pc' = "propagated" /\ requests' = requests
       /\ ~connected /\ requests' # requests => pc' = "propagated" \/ SendsFirst'
       /\ pc = "propagated" => UNCHANGED vars]_vars

\* the connection was lost while a task was under way, after a tool call
C15_Witness ==
    /\ pc = "propagated"
    /\ Len(dispatched) >= 1
    /\ \E k \in DOMAIN status : status[k] = "running"

\* C16: a send_text that fails does not end the run: no run ends by the
\* exception of a failed send leaving handle_agent_workflow.
C16_NotifyBestEffort == pc # "propagated"

\* execute_tasks has been entered and left, by return or by exception
ExecLeft ==
    /\ status # <<>>
    /\ pc \in {"final_review", "final_request", "wf_except", "finally", "done",
               "propagated"}

\* C20: on every way out of execute_tasks, a later step failing or raising
\* included, every task that was completed in this run has its '[x]' line in
\* the task file (the write at line 266 itself did not fail).
C20_DoneKept ==
    ExecLeft /\ "write" \notin excs =>
        \A k \in DOMAIN status :
            status[k] = "done" => k \in DOMAIN file /\ Contains(file[k], BoxDone)

(***************************************************************************)
(* main.py: websocket_endpoint, one handler per connection.  The handlers  *)
(* are coroutines of one event loop: a step below runs from one await to   *)
(* the next.  The call of handle_agent_workflow at lines 74-78 binds the   *)
(* planning model by the name planner_model_name; the model takes it as    *)
(* the call of handle_agent_workflow(user_query, selected_model,           *)
(* websocket).  The run is the one of Spec, taken here in its steps that   *)
(* touch what the connections share: the process environment, the task     *)
(* directory and the clock.                                                *)
(***************************************************************************)
MsgInvalidJson == "Agent Error: Invalid JSON payload received."

MsgEmptyQuery == "Agent Error: Received empty query."

MsgServerError == "Agent Error: An unexpected server error occurred: ..."

\* client_data.get(key, current)
Get(value, current) == IF value = Absent THEN current ELSE value

\* os.getenv(name, default)
Getenv(name, default) == IF environ[name] = Absent THEN default ELSE environ[name]

\* the JSON objects a client may send: a query, and all three models or none
Payloads ==
    {[query |-> q, planner_model |-> m, browser_model |-> m, code_model |-> m] :
        q \in Queries, m \in PayloadModels}

\* the locals of a run that has ended
RunOver(c) ==
    /\ user_query' = [user_query EXCEPT ![c] = <<>>]
    /\ task_file_path' = [task_file_path EXCEPT ![c] = NoPath]
    /\ planning_model' = [planning_model EXCEPT ![c] = {}]
    /\ read_from' = [read_from EXCEPT ![c] = {}]
    /\ child_env' = [child_env EXCEPT ![c] = {}]

\* websocket.send_text to the client of connection c
Answer(c, msgs) == answered' = [answered EXCEPT ![c] = @ \o msgs]

\* websocket.accept() and the default model selections
Accept(c) ==
    /\ spc[c] = "connecting"
    /\ spc' = [spc EXCEPT ![c] = "receive"]
    /\ current_planner_model' = [current_planner_model EXCEPT ![c] = PLANNING_TOOLING_MODEL]
    /\ current_browser_model' =
           [current_browser_model EXCEPT
               ![c] = Getenv("BROWSER_AGENT_INTERNAL_MODEL", "qwen2.5:7b")]
    /\ current_code_model' =
           [current_code_model EXCEPT ![c] = Getenv("DEEPCODER_MODEL", "deepcoder:latest")]
    /\ UNCHANGED <<environ, user_query, task_file_path, task_dir, now, answered,
                   planning_model, read_from, child_env>>
    /\ UNCHANGED <<runVars, callVars>>

\* a message that json.loads rejects
ReceiveInvalid(c) ==
    /\ spc[c] = "receive"
    /\ answered' = [answered EXCEPT ![c] = <<MsgInvalidJson>>]
    /\ UNCHANGED <<spc, current_planner_model, current_browser_model,
                   current_code_model, environ, user_query, task_file_path, task_dir,
                   now, planning_model, read_from, child_env>>
    /\ UNCHANGED <<runVars, callVars>>

\* a JSON object: lines 55-70, up to the call of handle_agent_workflow.  The
\* print of line 61 slices user_query: a query that is null raises TypeError
\* there, which the handler of lines 83-96 reports before it closes the
\* connection.
Receive(c) ==
    /\ spc[c] = "receive"
    /\ \E client_data \in Payloads :
        IF client_data.query = None
        THEN /\ current_planner_model' = [current_planner_model EXCEPT ![c] = Absent]
             /\ current_browser_model' = [current_browser_model EXCEPT ![c] = Absent]
             /\ current_code_model' = [current_code_model EXCEPT ![c] = Absent]
             /\ answered' = [answered EXCEPT ![c] = <<MsgServerError>>]
             /\ spc' = [spc EXCEPT ![c] = "closed"]
             /\ UNCHANGED <<environ, user_query, task_file_path, planning_model,
                            read_from, child_env>>
        ELSE
        /\ current_planner_model' =
               [current_planner_model EXCEPT ![c] = Get(client_data.planner_model, @)]
        /\ current_browser_model' =
               [current_browser_model EXCEPT ![c] = Get(client_data.browser_model, @)]
        /\ current_code_model' =
               [current_code_model EXCEPT ![c] = Get(client_data.code_model, @)]
        /\ IF client_data.query = <<>>
           THEN /\ answered' = [answered EXCEPT ![c] = <<MsgEmptyQuery>>]
                /\ UNCHANGED <<spc, environ, user_query, task_file_path,
                               planning_model, read_from, child_env>>
           ELSE /\ environ' =
                       [BROWSER_AGENT_INTERNAL_MODEL |-> current_browser_model'[c],
                        DEEPCODER_MODEL |-> current_code_model'[c]]
                /\ user_query' = [user_query EXCEPT ![c] = client_data.query]
                /\ spc' = [spc EXCEPT ![c] = "workflow"]
                /\ answered' = [answered EXCEPT ![c] = <<>>]
                /\ task_file_path' = [task_file_path EXCEPT ![c] = NoPath]
                /\ planning_model' = [planning_model EXCEPT ![c] = {}]
                /\ read_from' = [read_from EXCEPT ![c] = {}]
                /\ child_env' = [child_env EXCEPT ![c] = {}]
    /\ UNCHANGED <<task_dir, now>>
    /\ UNCHANGED <<runVars, callVars>>

\* handle_agent_workflow up to the return of create_task_list: the planning
\* request, and the task file written under its name
WfPlan(c) ==
    /\ spc[c] = "workflow"
    /\ planning_model' = [planning_model EXCEPT ![c] = {PLANNING_TOOLING_MODEL}]
    /\ \E listed \in BOOLEAN :
        IF listed
        THEN LET file_path == TaskFilePath(user_query[c], now) IN
             /\ task_dir' = [task_dir EXCEPT ![file_path] = c]
             /\ task_file_path' = [task_file_path EXCEPT ![c] = file_path]
             /\ Answer(c, <<MsgProcessing, MsgSaved>>)
             /\ spc' = [spc EXCEPT ![c] = "execute"]
        ELSE /\ Answer(c, <<MsgProcessing, MsgWorkflowError>>)
             /\ spc' = [spc EXCEPT ![c] = "finally"]
             /\ UNCHANGED <<task_dir, task_file_path>>
    /\ UNCHANGED <<current_planner_model, current_browser_model, current_code_model,
                   environ, user_query, now, read_from, child_env>>
    /\ UNCHANGED <<runVars, callVars>>

\* execute_tasks opens the task file and reads its lines
WfExecute(c) ==
    /\ spc[c] = "execute"
    /\ read_from' = [read_from EXCEPT ![c] = {task_dir[task_file_path[c]]}]
    /\ spc' = [spc EXCEPT ![c] = "tool"]
    /\ UNCHANGED <<current_planner_model, current_browser_model, current_code_model,
                   environ, user_query, task_file_path, task_dir, now, answered,
                   planning_model, child_env>>
    /\ UNCHANGED <<runVars, callVars>>

\* the tool call of a task: create_subprocess_exec hands os.environ, as it is
\* at the call, to the subprocess of the code and of the shell tool;
\* browse_website(tool_input, websocket) of agent.py:96 lacks the keyword
\* browser_model and raises before it spawns
WfTool(c) ==
    /\ spc[c] = "tool"
    /\ \E tool \in RealTools \cup {"none"} :
        child_env' = [child_env EXCEPT
                         ![c] = IF tool \in {"code_interpreter", "shell_terminal"}
                                THEN {environ} ELSE @]
    /\ spc' = [spc EXCEPT ![c] = "write_back"]
    /\ UNCHANGED <<current_planner_model, current_browser_model, current_code_model,
                   environ, user_query, task_file_path, task_dir, now, answered,
                   planning_model, read_from>>
    /\ UNCHANGED <<runVars, callVars>>

\* execute_tasks writes its lines over the file it has opened
WfWriteBack(c) ==
    /\ spc[c] = "write_back"
    /\ task_dir' = [task_dir EXCEPT ![task_file_path[c]] = c]
    /\ spc' = [spc EXCEPT ![c] = "final_review"]
    /\ UNCHANGED <<current_planner_model, current_browser_model, current_code_model,
                   environ, user_query, task_file_path, now, answered, planning_model,
                   read_from, child_env>>
    /\ UNCHANGED <<runVars, callVars>>

\* final_review reads the task file and answers
WfFinalReview(c) ==
    /\ spc[c] = "final_review"
    /\ read_from' = [read_from EXCEPT ![c] = {task_dir[task_file_path[c]]}]
    /\ \E m \in {MsgFinalAnswer, MsgFinalNoAnswer, MsgFinalUnread} : Answer(c, <<m>>)
    /\ spc' = [spc EXCEPT ![c] = "finally"]
    /\ UNCHANGED <<current_planner_model, current_browser_model, current_code_model,
                   environ, user_query, task_file_path, task_dir, now, planning_model,
                   child_env>>
    /\ UNCHANGED <<runVars, callVars>>

\* the finally clause of handle_agent_workflow, and back to receive_text
WfComplete(c) ==
    /\ spc[c] = "finally"
    /\ Answer(c, <<MsgComplete>>)
    /\ spc' = [spc EXCEPT ![c] = "receive"]
    /\ RunOver(c)
    /\ UNCHANGED <<current_planner_model, current_browser_model, current_code_model,
                   environ, task_dir, now>>
    /\ UNCHANGED <<runVars, callVars>>

\* the client goes away: receive_text or the next send_text raises, and the
\* handlers of lines 81-96 close the connection
Hangup(c) ==
    /\ spc[c] \notin {"connecting", "closed"}
    /\ spc' = [spc EXCEPT ![c] = "closed"]
    /\ RunOver(c)
    /\ current_planner_model' = [current_planner_model EXCEPT ![c] = Absent]
    /\ current_browser_model' = [current_browser_model EXCEPT ![c] = Absent]
    /\ current_code_model' = [current_code_model EXCEPT ![c] = Absent]
    /\ answered' = [answered EXCEPT ![c] = <<>>]
    /\ UNCHANGED <<environ, task_dir, now>>
    /\ UNCHANGED <<runVars, callVars>>

\* a second passes
Tick ==
    /\ now < MaxClock
    /\ now' = now + 1
    /\ UNCHANGED <<spc, current_planner_model, current_browser_model,
                   current_code_model, environ, user_query, task_file_path, task_dir,
                   answered, planning_model, read_from, child_env>>
    /\ UNCHANGED <<runVars, callVars>>

ServerNext ==
    \/ \E c \in Conns : Accept(c)
    \/ \E c \in Conns : ReceiveInvalid(c)
    \/ \E c \in Conns : Receive(c)
    \/ \E c \in Conns : WfPlan(c)
    \/ \E c \in Conns : WfExecute(c)
    \/ \E c \in Conns : WfTool(c)
    \/ \E c \in Conns : WfWriteBack(c)
    \/ \E c \in Conns : WfFinalReview(c)
    \/ \E c \in Conns : WfComplete(c)
    \/ \E c \in Conns : Hangup(c)
    \/ Tick

ServerSpec == Init /\ [][ServerNext]_vars

\* C17: under any interleaving of the connections' runs, the tool subprocesses
\* of a connection's run are given the browser and code model that connection
\* selected, and the task list a run reads was written by that run.
C17_RunsIsolated ==
    \A c \in Conns :
        /\ \A e \in child_env[c] :
               /\ e.BROWSER_AGENT_INTERNAL_MODEL = current_browser_model[c]
               /\ e.DEEPCODER_MODEL = current_code_model[c]
        /\ read_from[c] \subseteq {c}

\* C18: the run started for a non-empty query plans with the planning model
\* the client chose, and when the connection is back at receiving, the run
\* has answered with a final answer or an error, and with the completion
\* notice last.
C18_RunPerQuery ==
    \A c \in Conns :
        /\ planning_model[c] \subseteq {current_planner_model[c]}
        /\ spc[c] = "workflow" => user_query[c] # <<>> /\ answered[c] = <<>>
        /\ spc[c] = "receive" /\ Len(answered[c]) > 1 =>
               /\ answered[c][Len(answered[c])] = MsgComplete
               /\ \E k \in DOMAIN answered[c] :
                      answered[c][k] \in {MsgFinalAnswer, MsgFinalNoAnswer,
                                          MsgFinalUnread, MsgWorkflowError}

(***************************************************************************)
(* tools/: execute_shell_command, execute_python_code and browse_website,  *)
(* each called as it is declared.  A subprocess either exits while the     *)
(* call waits for it or the wait_for around communicate() expires.  Every  *)
(* path to a return passes a websocket.send_text, which raises when the    *)
(* websocket is lost.                                                      *)
(***************************************************************************)
ModuleNotFound == "ModuleNotFoundError: No module named 'x'"

\* the exit codes and the streams of a subprocess
ExitCodes == {"0", "1", "2"}

Streams == {"", "text"}

\* the stdout of the browser helper: nothing, no JSON, JSON that is no
\* object, an object with an error, with a result, with a result of null
HelperOutputs ==
    {"", "not JSON", "5", "{\"error\": \"e\"}", "{\"result\": \"r\"}",
     "{\"result\": null}"}

\* a text that has no exit code to report
ErrorText(msg) == <<<<"Error:", msg>>>>

\* result_parts with one label for every stderr
ExitTextOneLabel(exit_code, stdout, stderr) ==
    <<<<"Exit Code:", exit_code>>>>
        \o (IF stdout # "" THEN <<<<"Output:", stdout>>>> ELSE <<>>)
        \o (IF stderr # "" THEN <<<<"Error:", stderr>>>> ELSE <<>>)

\* result_parts of the shell and of the code tool
ExitText(exit_code, stdout, stderr) ==
    <<<<"Exit Code:", exit_code>>>>
        \o (IF stdout # "" THEN <<<<"Output:", stdout>>>> ELSE <<>>)
        \o (IF stderr # ""
            THEN <<<<IF exit_code # "0" THEN "Error:" ELSE "Stderr Log:", stderr>>>>
            ELSE <<>>)

\* BrowserText that takes the helper's stdout for the result whatever the
\* exit code
BrowserTextTrusting(exit_code, stdout) ==
    IF stdout = "{\"result\": \"r\"}" THEN <<<<"r", "">>>>
    ELSE ErrorText("Browser subprocess failed")

\* what browse_website returns for a helper that has exited; a stdout that
\* is JSON but no object, or whose result cannot be sliced, raises in lines
\* 129-136 and is answered by the handler of line 141
BrowserText(exit_code, stdout) ==
    IF exit_code # "0" THEN ErrorText("Browser subprocess failed")
    ELSE IF stdout = "" THEN <<<<"Browser action completed with no specific output.", "">>>>
    ELSE IF stdout = "not JSON" THEN ErrorText("Browser process returned non-JSON output.")
    ELSE IF stdout = "{\"error\": \"e\"}" THEN <<<<"Error from browser task:", "e">>>>
    ELSE IF stdout = "{\"result\": \"r\"}" THEN <<<<"r", "">>>>
    ELSE ErrorText("launching/managing browser process")

\* the last send_text of a path and its return
Return(text) ==
    IF usable THEN tpc' = "returned" /\ final_result_str' = text
    ELSE tpc' = "raised" /\ UNCHANGED final_result_str

\* the announcement of a subprocess and its create_subprocess_exec
Spawn(p) ==
    IF usable THEN tpc' = p /\ procs' = [procs EXCEPT ![p] = "running"]
    ELSE tpc' = "raised" /\ UNCHANGED procs

ALLOWED_COMMANDS ==
    {<<"l", "s">>, <<"p", "w", "d">>, <<"e", "c", "h", "o">>, <<"c", "a", "t">>,
     <<"g", "r", "e", "p">>, <<"m", "k", "d", "i", "r">>, <<"r", "m", "d", "i", "r">>, <<"r", "m">>,
     <<"t", "o", "u", "c", "h">>, <<"h", "e", "a", "d">>, <<"t", "a", "i", "l">>, <<"d", "a", "t", "e">>,
     <<"u", "n", "a", "m", "e">>, <<"d", "f">>, <<"f", "r", "e", "e">>, <<"e", "n", "v">>,
     <<"p", "y", "t", "h", "o", "n">>, <<"p", "y", "t", "h", "o", "n", "3">>, <<"p", "i", "p">>, <<"p", "i", "p", "3">>,
     <<"w", "g", "e", "t">>, <<"c", "u", "r", "l">>}

\* (the backquote is written "backquote")
ARGUMENT_BLACKLIST_PATTERNS ==
    {<<";">>, <<"|">>, <<"&">>, <<"backquote">>, <<"$">>, <<"(">>,
     <<")">>, <<"<">>, <<">">>, <<"*">>, <<"?">>, <<"[">>,
     <<"]">>, <<"{">>, <<"}">>, <<"\\">>, <<".", ".">>}

\* the commands the shell tool is called with
ShellCommands ==
    {<<>>, <<" ">>,
     <<"l", "s">>, <<"/", "b", "i", "n", "/", "l", "s">>,
     <<"s", "h">>, <<"l", "s", " ", "'", "a">>,
     <<"l", "s", " ", "'", "a", " ", "b", "'">>, <<"l", "s", " ", "a", ";", "b">>,
     <<"l", "s", " ", ".", ".">>, <<"l", "s", " ", ".", ".", "/", "a">>,
     <<"l", "s", " ", "a", ".", ".", "b">>}

\* shlex.split of a text without double quotes and backslashes, read from
\* position k on: parts are the finished tokens, cur the token being read,
\* st tells whether the reader is between tokens, in a token or in a quote;
\* a quote that is not closed is shlex's ValueError
RECURSIVE ShlexSplit(_, _, _, _, _)
ShlexSplit(s, k, parts, cur, st) ==
    IF k > Len(s)
    THEN [ok |-> st # "quote",
          parts |-> IF st = "token" THEN Append(parts, cur) ELSE parts]
    ELSE IF st = "quote"
    THEN IF s[k] = "'" THEN ShlexSplit(s, k + 1, parts, cur, "token")
         ELSE ShlexSplit(s, k + 1, parts, Append(cur, s[k]), "quote")
    ELSE IF s[k] = "'" THEN ShlexSplit(s, k + 1, parts, cur, "quote")
    ELSE IF IsSpace(s[k])
    THEN ShlexSplit(s, k + 1, IF st = "token" THEN Append(parts, cur) ELSE parts,
                    <<>>, "between")
    ELSE ShlexSplit(s, k + 1, parts, Append(cur, s[k]), "token")

\* os.path.basename: what follows the last separator
Basename(command) ==
    LET seps == {k \in DOMAIN command : command[k] = "/"}
        last == IF seps = {} THEN 0
                ELSE CHOOSE k \in seps : \A m \in seps : m <= k
    IN  SubSeq(command, last + 1, Len(command))

\* the checks without the allow-list
ShellVerdictUnlisted(command_text) ==
    IF Strip(command_text) = <<>> THEN "No shell command provided to execute."
    ELSE IF ~ShlexSplit(command_text, 1, <<>>, <<>>, "between").ok
    THEN "Command parsing failed"
    ELSE "spawn"

\* the checks of execute_shell_command before it runs anything: "spawn", or
\* the error the command is answered with
ShellVerdict(command_text) ==
    LET split == ShlexSplit(command_text, 1, <<>>, <<>>, "between")
        args == Tail(split.parts)
        \* '..' in arg.split(os.sep)
        traversal(arg) ==
            \E k \in 1..(Len(arg) - 1) :
                /\ arg[k] = "." /\ arg[k + 1] = "."
                /\ k = 1 \/ arg[k - 1] = "/"
                /\ k + 1 = Len(arg) \/ arg[k + 2] = "/"
        dangerous_chars_found(arg) ==
            {p \in ARGUMENT_BLACKLIST_PATTERNS : p # <<".", ".">> /\ Contains(arg, p)}
        \* the arguments at which the loop returns
        unsafe == {k \in DOMAIN args :
                      /\ \E p \in ARGUMENT_BLACKLIST_PATTERNS : Contains(args[k], p)
                      /\ traversal(args[k]) \/ dangerous_chars_found(args[k]) # {}}
    IN  IF Strip(command_text) = <<>> THEN "No shell command provided to execute."
        ELSE IF ~split.ok THEN "Command parsing failed"
        ELSE IF split.parts = <<>> THEN "Empty command after parsing."
        ELSE IF Basename(Head(split.parts)) \notin ALLOWED_COMMANDS
        THEN "Command is not in the allowed list"
        ELSE IF unsafe = {} THEN "spawn"
        ELSE IF traversal(args[CHOOSE k \in unsafe : \A m \in unsafe : k <= m])
        THEN "Argument contains potentially unsafe path traversal ('..')."
        ELSE "Argument contains potentially unsafe characters"

\* the call of a tool up to its first subprocess; an input the tool rejects
\* is answered at once.  The shell tool checks its command and may not find
\* the executable; the code tool writes the code to a temporary file, which
\* may fail before the file exists or (a full disk, a lone surrogate in the
\* code) after it; the browser tool needs its helper script and a model,
\* and create_subprocess_exec may raise.
CallTool ==
    /\ tpc = "idle"
    /\ \E t \in RealTools :
        /\ callee' = t
        /\ CASE t = "shell_terminal" ->
                  \E cmd \in ShellCommands, found \in BOOLEAN :
                      /\ full_command' = cmd
                      /\ IF ShellVerdict(cmd) # "spawn"
                         THEN Return(ErrorText(ShellVerdict(cmd))) /\ UNCHANGED procs
                         ELSE IF found
                         THEN Spawn("command") /\ UNCHANGED final_result_str
                         ELSE /\ Return(ErrorText("Command executable not found in system PATH."))
                              /\ UNCHANGED procs
                      /\ UNCHANGED script_file
             [] t = "code_interpreter" ->
                  \E code \in {"", "print(1)", "print('\\ud800')"},
                     tmp \in {"written", "not created", "not written"} :
                      /\ IF code = ""
                         THEN /\ Return(ErrorText("No Python code provided to execute."))
                              /\ UNCHANGED <<procs, script_file>>
                         ELSE IF ~usable
                         THEN /\ tpc' = "raised"
                              /\ UNCHANGED <<procs, final_result_str, script_file>>
                         ELSE IF tmp = "not created"
                         THEN /\ Return(ErrorText("Failed to create temporary file for code execution"))
                              /\ UNCHANGED <<procs, script_file>>
                         ELSE IF tmp = "not written" \/ code = "print('\\ud800')"
                         THEN /\ Return(ErrorText("Failed to create temporary file for code execution"))
                              /\ script_file' = "present"
                              /\ UNCHANGED procs
                         ELSE /\ Spawn("script1")
                              /\ script_file' = "present"
                              /\ UNCHANGED final_result_str
                      /\ UNCHANGED full_command
             [] t = "browser" ->
                  \E found \in {"helper", "no script", "no model", "no launch"} :
                      /\ IF found = "helper"
                         THEN Spawn("helper") /\ UNCHANGED final_result_str
                         ELSE /\ Return(ErrorText(
                                     CASE found = "no script" ->
                                            "Browser helper script not found"
                                       [] found = "no model" ->
                                            "No browser_model specified for browse_website."
                                       [] found = "no launch" ->
                                            "launching/managing browser process"))
                              /\ UNCHANGED procs
                      /\ UNCHANGED <<full_command, script_file>>
    /\ UNCHANGED <<attempt, usable, timedout>>
    /\ UNCHANGED helperVars
    /\ UNCHANGED <<runVars, serverVars>>

\* wait_for expires; the handler does not tell the caller
TimeoutEscapes ==
    /\ tpc \in ProcNames
    /\ timedout' = timedout \cup {tpc}
    /\ procs' = [procs EXCEPT ![tpc] = "killed"]
    /\ tpc' = "raised"
    /\ UNCHANGED <<callee, attempt, final_result_str, usable, full_command, script_file>>
    /\ UNCHANGED helperVars
    /\ UNCHANGED <<runVars, serverVars>>

\* wait_for(process.communicate(), timeout) expires: the subprocess is killed
\* and waited for (the pip install is not), and the call returns; the code
\* tool's finally removes the script file
Timeout ==
    /\ tpc \in ProcNames
    /\ timedout' = timedout \cup {tpc}
    /\ procs' = [procs EXCEPT ![tpc] = IF tpc = "pip" THEN @ ELSE "killed"]
    /\ attempt' = IF tpc \in {"script1", "script2"}
                  THEN [exit_code |-> "-1", stdout |-> "",
                        stderr |-> "Error: Python execution timed out after 60s."]
                  ELSE attempt
    /\ CASE tpc = "command" -> Return(ErrorText("Shell command timed out after 30s."))
         [] tpc \in {"script1", "script2"} ->
                Return(ExitText("-1", "", "Error: Python execution timed out after 60s."))
         [] tpc = "pip" ->
                Return(ErrorText("Unexpected error in code interpreter wrapper: "))
         [] tpc = "helper" ->
                Return(ErrorText("Browser subprocess exceeded hard timeout (240.0s)."))
    /\ script_file' = IF callee = "code_interpreter" THEN "removed" ELSE script_file
    /\ UNCHANGED <<callee, usable, full_command>>
    /\ UNCHANGED helperVars
    /\ UNCHANGED <<runVars, serverVars>>

\* the subprocess exits while the call waits for it; the code tool's finally
\* removes the script file when the call returns or raises
ProcessExits ==
    /\ tpc \in ProcNames
    /\ \E exit_code \in ExitCodes, stdout \in Streams,
          stderr \in Streams \cup {ModuleNotFound,
                                   "ModuleNotFoundError: No module named '!'"} :
        CASE tpc = "command" ->
                /\ attempt' = [exit_code |-> exit_code, stdout |-> stdout,
                               stderr |-> stderr]
                /\ Return(ExitText(exit_code, stdout, stderr))
                /\ procs' = [procs EXCEPT !["command"] = exit_code]
          [] tpc = "script1" ->
                /\ attempt' = [exit_code |-> exit_code, stdout |-> stdout,
                               stderr |-> stderr]
                /\ IF exit_code # "0" /\ stderr = ModuleNotFound
                   THEN /\ IF usable
                           THEN /\ tpc' = "pip"
                                /\ procs' = [procs EXCEPT !["script1"] = exit_code,
                                                          !["pip"] = "running"]
                           ELSE /\ tpc' = "raised"
                                /\ procs' = [procs EXCEPT !["script1"] = exit_code]
                        /\ UNCHANGED final_result_str
                   ELSE /\ Return(ExitText(exit_code, stdout, stderr))
                        /\ procs' = [procs EXCEPT !["script1"] = exit_code]
          [] tpc = "pip" ->
                /\ IF exit_code = "0"
                   THEN /\ IF usable
                           THEN /\ tpc' = "script2"
                                /\ procs' = [procs EXCEPT !["pip"] = exit_code,
                                                          !["script2"] = "running"]
                           ELSE /\ tpc' = "raised"
                                /\ procs' = [procs EXCEPT !["pip"] = exit_code]
                        /\ UNCHANGED final_result_str
                   ELSE /\ Return(ExitText(attempt.exit_code, attempt.stdout,
                                           "Auto-install failed"))
                        /\ procs' = [procs EXCEPT !["pip"] = exit_code]
                /\ UNCHANGED attempt
          [] tpc = "script2" ->
                /\ attempt' = [exit_code |-> exit_code, stdout |-> stdout,
                               stderr |-> stderr]
                /\ Return(ExitText(exit_code, stdout, stderr))
                /\ procs' = [procs EXCEPT !["script2"] = exit_code]
          [] tpc = "helper" ->
                /\ \E helper_stdout \in HelperOutputs :
                       /\ attempt' = [exit_code |-> exit_code, stdout |-> helper_stdout,
                                      stderr |-> stderr]
                       /\ Return(BrowserText(exit_code, helper_stdout))
                /\ procs' = [procs EXCEPT !["helper"] = exit_code]
    /\ script_file' = IF callee = "code_interpreter" /\ tpc' \in {"returned", "raised"}
                      THEN "removed" ELSE script_file
    /\ UNCHANGED <<callee, usable, timedout, full_command>>
    /\ UNCHANGED helperVars
    /\ UNCHANGED <<runVars, serverVars>>

\* the client goes away while the tool is at work
WebsocketLost ==
    /\ usable
    /\ tpc \notin {"returned", "raised"}
    /\ usable' = FALSE
    /\ UNCHANGED <<callee, tpc, procs, attempt, final_result_str, timedout,
                   full_command, script_file>>
    /\ UNCHANGED helperVars
    /\ UNCHANGED <<runVars, serverVars>>

(***************************************************************************)
(* run_browser_task.py, the process that browse_website launches.  It can  *)
(* act while it is alive; the wait of browse_website may end it before it  *)
(* has come to its end.                                                    *)
(***************************************************************************)
\* sys.argv[1]: missing, no JSON, JSON that is no object, an object without
\* instructions, with empty ones, with instructions
HelperArgs ==
    {"<no argv>", "not JSON", "5", "{}", "{\"instructions\": \"\"}",
     "{\"instructions\": \"go\"}"}

\* the imports of lines 24-37 and the main block up to the call of run_task
HelperMain ==
    /\ procs["helper"] = "running"
    /\ hpc = "start"
    /\ \E arg \in HelperArgs, imported \in BOOLEAN :
        /\ input_json_str' = arg
        /\ IF ~imported \/ arg = "<no argv>"
           THEN /\ printed' = Append(printed, "error")
                /\ exit_status' = "1"
                /\ hpc' = "exited"
                /\ UNCHANGED result_data
           ELSE /\ result_data' =
                     [key |-> "error",
                      value |-> CASE arg = "not JSON" -> "Invalid JSON input."
                                  [] arg = "5" -> "Fatal error: ..."
                                  [] arg \in {"{}", "{\"instructions\": \"\"}"} ->
                                         "Missing 'instructions' key."
                                  [] OTHER -> "Subprocess main block failed."]
                /\ hpc' = IF arg = "{\"instructions\": \"go\"}" THEN "run_task"
                          ELSE "finally"
                /\ UNCHANGED <<printed, exit_status>>
    /\ UNCHANGED <<browser_instance, context_instance>>
    /\ UNCHANGED <<callee, tpc, procs, attempt, final_result_str, usable, timedout,
                   full_command, script_file>>
    /\ UNCHANGED <<runVars, serverVars>>

\* run_task: the five steps, any of which may raise, the result that
\* agent_instance.run() gives, and the cleanup
HelperRunTask ==
    /\ procs["helper"] = "running"
    /\ hpc = "run_task"
    /\ \E raises \in {"llm", "browser", "context", "agent", "run", "timeout", "no"},
          final_result \in {"r", "None", "no history", "<object>"},
          closes \in BOOLEAN :
        /\ result_data' =
              IF raises = "timeout"
              THEN [key |-> "error", value |-> "Browser action timed out in subprocess."]
              ELSE IF raises # "no"
              THEN [key |-> "error", value |-> "Error in subprocess run_task: ..."]
              ELSE [key |-> "result",
                    value |-> CASE final_result = "None" -> "Action finished, no result text."
                                [] final_result = "no history" ->
                                       "Task started but no result captured."
                                [] OTHER -> final_result]
        /\ browser_instance' = IF raises \in {"llm", "browser"} THEN "None"
                               ELSE IF closes THEN "closed" ELSE "open"
        /\ context_instance' = IF raises \in {"llm", "browser", "context"} THEN "None"
                               ELSE IF closes THEN "closed" ELSE "open"
    /\ hpc' = "finally"
    /\ UNCHANGED <<input_json_str, printed, exit_status>>
    /\ UNCHANGED <<callee, tpc, procs, attempt, final_result_str, usable, timedout,
                   full_command, script_file>>
    /\ UNCHANGED <<runVars, serverVars>>

\* the finally of the main block: result_data is printed, or the error of
\* line 127 when json.dumps cannot serialise it, and the process exits with
\* 0 when result_data has the key 'result'
HelperExit ==
    /\ procs["helper"] = "running"
    /\ hpc = "finally"
    /\ printed' = Append(printed, IF result_data.value = "<object>" THEN "error"
                                  ELSE result_data.key)
    /\ exit_status' = IF result_data.key = "result" THEN "0" ELSE "1"
    /\ hpc' = "exited"
    /\ UNCHANGED <<input_json_str, result_data, browser_instance, context_instance>>
    /\ UNCHANGED <<callee, tpc, procs, attempt, final_result_str, usable, timedout,
                   full_command, script_file>>
    /\ UNCHANGED <<runVars, serverVars>>

ToolNext ==
    \/ CallTool
    \/ ProcessExits
    \/ Timeout
    \/ WebsocketLost
    \/ HelperMain
    \/ HelperRunTask
    \/ HelperExit

ToolSpec == Init /\ [][ToolNext]_vars

\* C19: every wait of a tool for its subprocess has a timeout; a wait that
\* has run into its timeout ends the call, which returns a text that
\* reports the error, and the call raises only when the websocket is lost.
C19_TimeoutSurfaced ==
    /\ tpc \in ProcNames => ENABLED Timeout
    /\ tpc = "raised" => ~usable
    /\ timedout # {} =>
          /\ tpc \in {"returned", "raised"}
          /\ tpc = "returned" =>
                \E k \in DOMAIN final_result_str : final_result_str[k][1] = "Error:"

\* the script of the code tool ran into its timeout and the call has returned
C19_Witness ==
    /\ callee = "code_interpreter"
    /\ timedout = {"script1"}
    /\ tpc = "returned"
    /\ procs["script1"] = "killed"
    /\ usable

\* C21: a planning reply that create_task_list accepts gives a task list that
\* is not empty, holds the accepted lines in the order of the reply, and in
\* which every step has a description that is not empty.
C21_StepsDescribed ==
    plan_kind = "list" /\ pc # "wf_except" /\ file # <<>> =>
        \A k \in DOMAIN file : TaskDesc(Strip(file[k])) # <<>>

\* C26: the call of every step whose selected tool is the browser reaches the
\* browser tool, which launches its subprocess and returns its text: the
\* call of a browser step does not end in an exception.
C26_BrowserDispatched ==
    \A k \in DOMAIN selected :
        selected[k] = "browser" /\ status[k] \in {"done", "error"} => k \notin raised

\* C22: the number of steps a run executes stays within a ceiling that does
\* not grow with the plan.  Whatever the ceiling is, some plan is longer: the
\* ceiling is taken one below the longest plan of the model.
C22_StepCeiling ==
    LET ceiling == MaxPlanLines - 1
    IN  Cardinality({k \in DOMAIN status : status[k] # "pending"}) <= ceiling

\* C23: a reply without JSON, the None reply included, makes the tool
\* selection fail with the warning "No JSON structure found." and nothing
\* else: the warning is never followed by the report of an exception raised
\* in the selection.
C23_NoneIsOutcome ==
    \A k \in DOMAIN log :
        log[k] = MsgNoJson /\ k < Len(log) => log[k + 1] # MsgSelectFailed
\* C24: execute_shell_command spawns its subprocess only for a command that
\* parses and whose first token has a basename in ALLOWED_COMMANDS; every
\* other command, the empty and the unparseable one included, spawns nothing
\* and is answered with an error text.
C24_AllowedOnly ==
    callee = "shell_terminal" =>
        LET split == ShlexSplit(full_command, 1, <<>>, <<>>, "between")
            allowed == /\ Strip(full_command) # <<>>
                       /\ split.ok
                       /\ split.parts # <<>>
                       /\ Basename(Head(split.parts)) \in ALLOWED_COMMANDS
        IN  /\ procs["command"] # "unborn" => allowed
            /\ ~allowed =>
                  /\ procs["command"] = "unborn"
                  /\ tpc \in {"returned", "raised"}
                  /\ tpc = "returned" => final_result_str[1][1] = "Error:"

\* /bin/ls, allowed by its basename, has been spawned and has exited
C24_Witness ==
    /\ full_command = <<"/", "b", "i", "n", "/", "l", "s">>
    /\ procs["command"] \in ExitCodes
    /\ tpc = "returned"

\* C28: execute_shell_command spawns nothing for a command of which an
\* argument contains a pattern of ARGUMENT_BLACKLIST_PATTERNS, '..' anywhere
\* in the argument included.
C28_NoBlacklistedArgument ==
    procs["command"] # "unborn" =>
        LET args == Tail(ShlexSplit(full_command, 1, <<>>, <<>>, "between").parts)
        IN  \A k \in DOMAIN args, p \in ARGUMENT_BLACKLIST_PATTERNS :
                ~Contains(args[k], p)
\* C29: when a tool call returns, no subprocess it spawned is still
\* running: each has exited or has been killed and waited for.
C29_NoneLeftRunning ==
    tpc = "returned" => \A p \in ProcNames : procs[p] # "running"

\* C25: execute_python_code runs the script a second time only after a first
\* run that exited non-zero with a ModuleNotFoundError naming a package and
\* a pip install of it that exited 0; the text of a call that ran the script
\* reports the exit code of its last run.
C25_RunsAndReports ==
    callee = "code_interpreter" =>
        /\ procs["script2"] # "unborn" =>
              /\ procs["script1"] \in ExitCodes \ {"0"}
              /\ procs["pip"] = "0"
        /\ tpc = "script2" => attempt.stderr = ModuleNotFound
        /\ tpc = "returned" /\ procs["script1"] # "unborn" =>
              final_result_str[1] = <<"Exit Code:", attempt.exit_code>>

\* C30: a call of execute_python_code that has created its script file has
\* removed it when it returns.
C30_ScriptRemoved ==
    callee = "code_interpreter" /\ tpc = "returned" => script_file # "present"

C32_NegativeNotMarked ==
    [][\A rv \in {None, <<>>, RvUnsatisfactory, RvIssue} :
          ReviewOn(rv) => status'[i] # "done" /\ lines' = lines /\ pc' = "write_back"]_vars
\* C33: every line that create_task_list has written to the task file is an
\* incomplete task for execute_tasks, and 'Task execution finished.' is sent
\* only when every line of the file was executed and marked completed.
C33_AcceptedAreExecuted ==
    InLog(MsgFinished) => \A k \in DOMAIN status : status[k] = "done"
\* C34: when execute_tasks returns, the task file has the lines it had, in
\* their order; the line of a task that was executed and passed its review
\* differs from its original by its checkbox only, '[ ]' having become
\* '[x]', and every other line is unchanged (whitespace at the end of a line
\* is not compared).
C34_OnlyCheckboxChanges ==
    [][pc = "write_back" /\ pc' = "final_review" =>
          /\ Len(file') = Len(file)
          /\ \A k \in DOMAIN file :
                RStrip(file'[k]) =
                    RStrip(IF status[k] = "done" THEN Replace(file[k], Box, BoxDone)
                           ELSE file[k])]_vars
\* C35: a tool-selection reply that holds its JSON object in a generic ```
\* fence raises nothing and selects the tool that the same object selects
\* when it is sent bare.
C35_GenericFenceSelects ==
    [][\A inp \in ReplyInputs :
          SelectToolOn(SelectReply("generic", "object", "browser"), inp) /\ connected =>
              /\ excs' = excs
              /\ selected'[i] =
                     SelectOutcome(SelectReply("bare", "object", "browser"), json_start).tool]_vars
\* C36: a message that is not valid JSON, or whose query is empty, is
\* answered with exactly one error message; it starts no run and changes no
\* environment variable, and the connection goes on to receive.
C36_BadMessageAnswered ==
    [][\A c \in Conns :
          (ReceiveInvalid(c) \/ Receive(c)) /\ spc'[c] # "workflow" =>
              /\ answered'[c] \in {<<MsgInvalidJson>>, <<MsgEmptyQuery>>}
              /\ environ' = environ
              /\ planning_model'[c] = {}
              /\ spc'[c] = "receive"]_vars
\* C31: browse_website raises only when the websocket is lost.  It returns
\* the task result only when the helper has exited with 0 and its stdout is
\* a JSON object with a result and no error; on every failure (no helper
\* script, no model, launch exception, timeout, non-zero exit, stdout that
\* is not JSON or holds an error) the text it returns starts with 'Error'.
C31_BrowserFailuresAreTexts ==
    callee = "browser" =>
        /\ tpc = "raised" => ~usable
        /\ tpc = "returned" =>
              LET text == final_result_str[1]
              IN  IF procs["helper"] = "0" /\ attempt.stdout = "{\"result\": \"r\"}"
                  THEN text = <<"r", "">>
                  ELSE IF procs["helper"] = "0" /\ attempt.stdout = ""
                  THEN text[1] = "Browser action completed with no specific output."
                  ELSE text[1] \in {"Error:", "Error from browser task:"}

\* the helper has exited with 0 and an error in its JSON
C31_Witness ==
    /\ callee = "browser"
    /\ tpc = "returned"
    /\ procs["helper"] = "0"
    /\ final_result_str = <<<<"Error from browser task:", "e">>>>
\* C37: the browser helper has printed exactly one JSON object when it
\* exits; it exits with 0 exactly when that object has the key 'result', and
\* with 1 when the object has the key 'error'.
C37_OneObjectAndItsCode ==
    hpc = "exited" =>
        /\ Len(printed) = 1
        /\ exit_status = "0" <=> printed[1] = "result"
        /\ printed[1] = "error" => exit_status = "1"
====
